---- MODULE Spec2Model ----
(***************************************************************************)
(* A model of the geospatial data visualizer: the caching download         *)
(* (utils.download_from_s3), the raster stretch computation                *)
(* (utils.calculate_vmin_vmax, memoized by st.cache_data), the map         *)
(* builders (utils.visualize_raster, utils.create_map) and the Streamlit   *)
(* script that drives them (app.py).                                       *)
(*                                                                         *)
(* A Python str is a sequence of one-character strings, so that join,      *)
(* basename, split and replace are computed as the library computes them.  *)
(* Time is the wall clock in seconds.                                      *)
(***************************************************************************)
EXTENDS Integers, Sequences, FiniteSets, TLC

VARIABLES
    now,      \* datetime.now().timestamp(), in seconds
    fs,       \* the local filesystem: path -> [mtime, key, data, nodata]
    remote,   \* the bucket: key -> [data, nodata] for every object it holds
    memo,     \* st.cache_data store of calculate_vmin_vmax: arguments -> result
    session,  \* st.session_state: [iso, dataset]
    out,      \* what the last script / fragment / function run ended with
    call,     \* the last download_from_s3 call, as observed from outside
    hist,     \* history of the watched argument triple (freshness window)
    race,     \* two concurrent download_from_s3 callers, statement by statement
    runs      \* script and fragment runs so far

vars == <<now, fs, remote, memo, session, out, call, hist, race, runs>>

----------------------------------------------------------------------------
(* Bounds of the model.                                                    *)

\* seconds the clock advances in one step (24 hours)
TickSeconds == 86400
\* the clock advances at most this many times
MaxTicks == 2
\* cells of a raster's first band
MaxCells == 3
\* calls counted inside one freshness window
MaxCalls == 3
\* script and fragment runs of one session
MaxRuns == 5

----------------------------------------------------------------------------
(* Strings.                                                                *)

EmptyStr == << >>

Min(a, b) == IF a <= b THEN a ELSE b

\* F applied to the value of x, x evaluated once
With(x, F(_)) == CHOOSE y \in {F(v) : v \in {x}} : TRUE

\* index of the last occurrence of character c in s[1..i], 0 when there is none
RECURSIVE rfind_upto(_, _, _)
rfind_upto(s, c, i) ==
    IF i = 0 THEN 0
    ELSE IF s[i] = c THEN i
    ELSE rfind_upto(s, c, i - 1)

\* str.rfind, counting from 1: 0 when c does not occur
rfind(s, c) == rfind_upto(s, c, Len(s))

startswith(s, pre) ==
    /\ Len(pre) <= Len(s)
    /\ SubSeq(s, 1, Len(pre)) = pre

\* str.replace(old, new): every non-overlapping occurrence, left to right
RECURSIVE replace(_, _, _)
replace(s, old, new) ==
    IF s = EmptyStr THEN EmptyStr
    ELSE IF startswith(s, old)
         THEN new \o replace(SubSeq(s, Len(old) + 1, Len(s)), old, new)
         ELSE <<s[1]>> \o replace(SubSeq(s, 2, Len(s)), old, new)

LowerOf ==
    "A" :> "a" @@ "B" :> "b" @@ "C" :> "c" @@ "D" :> "d" @@ "E" :> "e" @@
    "F" :> "f" @@ "G" :> "g" @@ "H" :> "h" @@ "I" :> "i" @@ "J" :> "j" @@
    "K" :> "k" @@ "L" :> "l" @@ "M" :> "m" @@ "N" :> "n" @@ "O" :> "o" @@
    "P" :> "p" @@ "Q" :> "q" @@ "R" :> "r" @@ "S" :> "s" @@ "T" :> "t" @@
    "U" :> "u" @@ "V" :> "v" @@ "W" :> "w" @@ "X" :> "x" @@ "Y" :> "y" @@
    "Z" :> "z"

\* str.lower()
lower(s) == [i \in 1..Len(s) |-> IF s[i] \in DOMAIN LowerOf THEN LowerOf[s[i]] ELSE s[i]]

\* key.split('.')[-1].lower()
ext_of(key) == lower(SubSeq(key, rfind(key, ".") + 1, Len(key)))

\* os.path.basename: what follows the last slash
basename(p) == SubSeq(p, rfind(p, "/") + 1, Len(p))

\* os.path.join of two components
join(a, b) ==
    IF startswith(b, <<"/">>) THEN b
    ELSE IF a = EmptyStr \/ a[Len(a)] = "/" THEN a \o b
    ELSE a \o <<"/">> \o b

\* os.path.join of three components
join3(a, b, c) == join(join(a, b), c)

----------------------------------------------------------------------------
(* The filesystem and the object store.                                    *)

\* os.path.exists
exists(fsv, p) == p \in DOMAIN fsv

\* os.path.getmtime
getmtime(fsv, p) == fsv[p].mtime

\* the local file name download_from_s3 resolves its arguments to
LocalPath_fullkey(download_dir, key) == join(download_dir, key)

LocalPath(download_dir, key) == join(download_dir, basename(key))

\* the staleness test guarding the download
NeedsDownload_inverted(fsv, t, p) ==
    \/ ~exists(fsv, p)
    \/ getmtime(fsv, p) > t - 24 * 3600

NeedsDownload_le(fsv, t, p) ==
    \/ ~exists(fsv, p)
    \/ getmtime(fsv, p) <= t - 24 * 3600

NeedsDownload(fsv, t, p) ==
    \/ ~exists(fsv, p)
    \/ getmtime(fsv, p) < t - 24 * 3600

\* s3.download_file succeeds when the object exists and the transfer and the
\* write go through (net = "ok"); it then replaces the file whole.  When it
\* raises, the local file is as it was: the transfer goes to a temporary
\* file that is renamed onto the path only once complete.
CanDownload(rem, key, net) == key \in DOMAIN rem /\ net = "ok"

Stored_keepfirst(fsv, t, rem, key, p) ==
    [q \in DOMAIN fsv \cup {p} |->
        IF q = p /\ ~exists(fsv, p)
        THEN [mtime |-> t, key |-> key, data |-> rem[key].data, nodata |-> rem[key].nodata]
        ELSE fsv[q]]

Stored(fsv, t, rem, key, p) ==
    [q \in DOMAIN fsv \cup {p} |->
        IF q = p
        THEN [mtime |-> t, key |-> key, data |-> rem[key].data, nodata |-> rem[key].nodata]
        ELSE fsv[q]]

\* One sequential call of download_from_s3: the filesystem it leaves and what
\* the caller sees (a returned path, or an exception raised by the download).
download_from_s3(fsv, t, rem, bucket_name, key, download_dir, net) ==
    With(LocalPath(download_dir, key), LAMBDA file_path :
    With(NeedsDownload(fsv, t, file_path), LAMBDA need :
    With(CanDownload(rem, key, net), LAMBDA okdl :
        [ fs         |-> IF need /\ okdl THEN Stored(fsv, t, rem, key, file_path) ELSE fsv,
          downloaded |-> need,
          raised     |-> need /\ ~okdl,
          ret        |-> IF need /\ ~okdl THEN EmptyStr ELSE file_path ])))

----------------------------------------------------------------------------
(* Rasters.  A cell of the first band, read as float64, is a finite number *)
(* (k = "num", value v), NaN, +inf or -inf.  The declared no-data value is   *)
(* None (k = "none") or a cell.                                            *)

Num(v) == [k |-> "num", v |-> v]
NaN == [k |-> "nan", v |-> 0]
PosInf == [k |-> "inf", v |-> 0]
NegInf == [k |-> "ninf", v |-> 0]
None == [k |-> "none", v |-> 0]

\* A display bound is the real number (num + coef * sqrt(rad)) / den, kept
\* exactly; den = 0 stands for the float NaN.
Val(num, coef, rad, den) == [num |-> num, coef |-> coef, rad |-> rad, den |-> den]
Exact(v) == Val(v, 0, 0, 1)
NaNVal == Val(0, 0, 0, 0)

\* data[~np.isnan(data) & ~np.isinf(data)], then valid_data != nodata
IsValid_nonodata(cell, nodata) == cell.k = "num"

IsValid(cell, nodata) ==
    /\ cell.k = "num"
    /\ (nodata.k = "none" \/ ~(nodata.k = "num" /\ nodata.v = cell.v))

RECURSIVE valid_data(_, _)
valid_data(data, nodata) ==
    IF data = << >> THEN << >>
    ELSE LET rest == valid_data(Tail(data), nodata)
         IN  IF IsValid(Head(data), nodata) THEN <<Head(data).v>> \o rest ELSE rest

\* valid_data.size == 0
IsEmpty_never(valid) == FALSE

IsEmpty(valid) == Len(valid) = 0

RECURSIVE SumSeq(_)
SumSeq(xs) == IF xs = << >> THEN 0 ELSE Head(xs) + SumSeq(Tail(xs))

RECURSIVE Insert(_, _)
Insert(x, sorted) ==
    IF sorted = << >> THEN <<x>>
    ELSE IF x <= Head(sorted) THEN <<x>> \o sorted
    ELSE <<Head(sorted)>> \o Insert(x, Tail(sorted))

RECURSIVE Sorted(_)
Sorted(xs) == IF xs = << >> THEN << >> ELSE Insert(Head(xs), Sorted(Tail(xs)))

\* np.min, np.max
np_min(valid) == Sorted(valid)[1]
np_max(valid) == Sorted(valid)[Len(valid)]

\* np.percentile(valid, q), linear interpolation between the two nearest
\* ranks: a[lo] + frac * (a[lo + 1] - a[lo]) at rank (n - 1) * q / 100;
\* NaN for an empty sample
np_percentile(valid, q) ==
    IF Len(valid) = 0 THEN NaNVal
    ELSE LET a    == Sorted(valid)
             pos  == (Len(valid) - 1) * q
             lo   == pos \div 100
             frac == pos % 100
         IN  IF frac = 0 THEN Val(100 * a[lo + 1], 0, 0, 100)
             ELSE Val(100 * a[lo + 1] + frac * (a[lo + 2] - a[lo + 1]), 0, 0, 100)

\* mean -/+ std_factor * std with the population standard deviation:
\* mean = S / n and std = sqrt(n * Q - S * S) / n; NaN for an empty sample
std_bound(valid, coef) ==
    IF Len(valid) = 0 THEN NaNVal
    ELSE LET n == Len(valid)
             S == SumSeq(valid)
             Q == SumSeq([i \in 1..n |-> valid[i] * valid[i]])
         IN  Val(S, coef, n * Q - S * S, n)

Methods == {"min_max", "percent_clip", "std_dev", "bogus"}

Raise(msg) == [raised |-> TRUE, msg |-> msg, vmin |-> NaNVal, vmax |-> NaNVal]
Range(lo, hi) == [raised |-> FALSE, msg |-> "", vmin |-> lo, vmax |-> hi]

\* The body of calculate_vmin_vmax (without the st.cache_data wrapper).
calculate_body(fsv, image_path, method, percent_clip, std_factor) ==
    IF ~exists(fsv, image_path) THEN Raise("RasterioIOError")
    ELSE
    With(valid_data(fsv[image_path].data, fsv[image_path].nodata), LAMBDA valid :
        IF IsEmpty(valid) THEN Raise("No valid pixel values found in the raster.")
        ELSE IF method = "min_max"
             THEN IF Len(valid) = 0  \* np.min of an empty array raises
                  THEN Raise("zero-size array to reduction operation")
                  ELSE Range(Exact(np_min(valid)), Exact(np_max(valid)))
        ELSE IF method = "percent_clip"
             THEN Range(np_percentile(valid, percent_clip[1]),
                        np_percentile(valid, percent_clip[2]))
        ELSE IF method = "std_dev"
             THEN Range(std_bound(valid, 0 - std_factor), std_bound(valid, std_factor))
        ELSE Raise("Invalid method."))

\* @st.cache_data: the result is stored under the call's arguments and
\* returned for them from then on; a raised exception is not stored.
calculate_vmin_vmax(memov, fsv, image_path, method, percent_clip, std_factor) ==
    With(<<image_path, method, percent_clip, std_factor>>, LAMBDA args :
        IF args \in DOMAIN memov
        THEN [memo |-> memov, res |-> memov[args]]
        ELSE With(calculate_body(fsv, image_path, method, percent_clip, std_factor),
                  LAMBDA r :
                  [memo |-> IF r.raised THEN memov
                            ELSE [a \in DOMAIN memov \cup {args} |->
                                     IF a = args THEN r ELSE memov[a]],
                   res  |-> r]))

\* visualize_raster with the defaults its callers leave alone (colormap,
\* build_overviews = False).  vmin / vmax are None or a display bound; the
\* locals v_min / v_max are bound only inside the `if`.
visualize_raster(memov, fsv, img_path, vmin, vmax) ==
    IF vmin = None \/ vmax = None
    THEN With(calculate_vmin_vmax(memov, fsv, img_path, "std_dev", <<2, 98>>, 2),
              LAMBDA c :
              [ memo |-> c.memo, raised |-> c.res.raised, msg |-> c.res.msg,
                vmin |-> c.res.vmin, vmax |-> c.res.vmax ])
    ELSE [ memo |-> memov, raised |-> TRUE, msg |-> "UnboundLocalError: v_min",
           vmin |-> NaNVal, vmax |-> NaNVal ]

----------------------------------------------------------------------------
(* app.py: configuration.  The secrets are not in the repository; the      *)
(* values below stand for them.                                            *)

BUCKET_NAME == <<"b">>
PREFIXES == << <<"g">>, <<"s">>, <<"t">> >>

Slash == <<"/">>
format_iso == <<"f","o","r","m","a","t","_","i","s","o">>
S3Url(prefix, rest) == <<"s","3",":","/","/">> \o BUCKET_NAME \o Slash \o prefix \o rest

NoDataset == EmptyStr
country_boundaries == <<"c","o","u","n","t","r","y","_","b","o","u","n","d","a","r","i","e","s">>
buffaloes == <<"b","u","f","f","a","l","o","e","s">>
TechnoPrivate ==
    <<"T","e","c","h","n","o","-","e","c","o","n","o","m","i","c"," ","P","r","i","v","a","t","e"," ","b","e","n","e","f","i","t","s">>
TechnoSocial ==
    <<"T","e","c","h","n","o","-","e","c","o","n","o","m","i","c"," ","S","o","c","i","a","l"," ","b","e","n","e","f","i","t","s">>

\* DATASETS, five of its twenty-one entries: the empty choice, a vector, a
\* raster, and the two CSV entries whose keys end in the same file name.
\* The empty choice maps to None, written NoUrl.
NoUrl == <<"None">>

DATASETS ==
    NoDataset :> NoUrl
    @@ country_boundaries :> S3Url(PREFIXES[1], Slash \o format_iso \o
        <<"/","A","d","m","i","n","i","s","t","r","a","t","i","v","e","/","C","o","u","n","t","r","y","_","b","o","u","n","d","a","r","i","e","s","/","C","o","u","n","t","r","y","_","b","o","u","n","d","a","r","i","e","s",".","g","e","o","j","s","o","n">>)
    @@ buffaloes :> S3Url(PREFIXES[1], Slash \o format_iso \o
        <<"/","B","i","o","g","a","s","/","L","i","v","e","s","t","o","c","k","/","b","u","f","f","a","l","o","e","s","/","b","u","f","f","a","l","o","e","s",".","t","i","f">>)
    @@ TechnoPrivate :> S3Url(PREFIXES[3],
        <<"/","P","r","i","v","a","t","e"," ","b","e","n","e","f","i","t","s","/">> \o format_iso \o
        <<"_","f","i","l","e","_","t","e","c","h","_","s","p","e","c","s",".","c","s","v">>)
    @@ TechnoSocial :> S3Url(PREFIXES[3],
        <<"/","S","o","c","i","a","l"," ","b","e","n","e","f","i","t","s","/">> \o format_iso \o
        <<"_","f","i","l","e","_","t","e","c","h","_","s","p","e","c","s",".","c","s","v">>)

SESSION_TEMP_DIR ==
    join(<<"/","t","m","p">>,
         <<"s","t","r","e","a","m","l","i","t","_","d","a","t","a","_","v","i","s","u","a","l","i","z","e","r","_","a","p","p","_","s","e","s","s","i","o","n">>)

\* get_iso_list: "" followed by the folders listed under the first prefix
KEN == <<"K","E","N">>
iso_list == <<EmptyStr, KEN>>

\* s3_url.replace('format_iso', selected_iso), then the bucket prefix removed
ComputeKey(dataset, selected_iso) ==
    replace(replace(DATASETS[dataset], format_iso, selected_iso),
            S3Url(EmptyStr, EmptyStr), EmptyStr)

\* the same, tabulated once for every selection the two selectboxes allow
KeyTable ==
    [sel \in (DOMAIN DATASETS \ {NoDataset}) \X {iso_list[j] : j \in DOMAIN iso_list} |->
        ComputeKey(sel[1], sel[2])]

KeyOf(dataset, selected_iso) == KeyTable[<<dataset, selected_iso>>]

----------------------------------------------------------------------------
(* What a run leaves behind for the observer.                              *)

NoCall ==
    [ made |-> FALSE, key |-> EmptyStr, dir |-> EmptyStr, at |-> 0,
      pre_exists |-> FALSE, pre_mtime |-> 0,
      downloaded |-> FALSE, raised |-> FALSE, ret |-> EmptyStr ]

\* the record of one download_from_s3 call with result r, made at time t on
\* filesystem fsv
Observed(fsv, t, key, dir, r) ==
    LET p == LocalPath(dir, key)
    IN  [ made |-> TRUE, key |-> key, dir |-> dir, at |-> t,
          pre_exists |-> exists(fsv, p),
          pre_mtime  |-> IF exists(fsv, p) THEN getmtime(fsv, p) ELSE 0,
          downloaded |-> r.downloaded, raised |-> r.raised, ret |-> r.ret ]

Out(kind, path, msg, vmin, vmax) ==
    [kind |-> kind, path |-> path, raised |-> FALSE, msg |-> msg,
     vmin |-> vmin, vmax |-> vmax, args |-> << >>]

\* the result of a direct function call with arguments args
OutOf(kind, path, args, res) ==
    [kind |-> kind, path |-> path, raised |-> res.raised, msg |-> res.msg,
     vmin |-> res.vmin, vmax |-> res.vmax, args |-> args]

Idle == Out("idle", EmptyStr, "", NaNVal, NaNVal)

----------------------------------------------------------------------------
(* utils.create_map and the Streamlit script.                              *)

RasterExts == {<<"t","i","f">>, <<"t","i","f","f">>, <<"g","t","i","f","f">>}
VectorExts == {<<"g","e","o","j","s","o","n">>, <<"s","h","p">>}
csv == <<"c","s","v">>

\* create_map: the download is not guarded; the map is the raster map, the
\* vector map, or None after st.error for an unsupported extension
create_map(memov, fsv, t, rem, bucket_name, key, layer_name, session_temp_dir, net) ==
    With(download_from_s3(fsv, t, rem, bucket_name, key, session_temp_dir, net),
         LAMBDA r :
    With(Observed(fsv, t, key, session_temp_dir, r), LAMBDA obs :
        IF r.raised
        THEN [fs |-> r.fs, memo |-> memov, call |-> obs, raised |-> TRUE,
              out |-> Out("none", EmptyStr, "download failed", NaNVal, NaNVal)]
        ELSE IF ext_of(key) \in RasterExts
        THEN With(visualize_raster(memov, r.fs, r.ret, None, None), LAMBDA m :
             [fs |-> r.fs, memo |-> m.memo, call |-> obs, raised |-> m.raised,
              out |-> IF m.raised THEN Out("none", r.ret, m.msg, NaNVal, NaNVal)
                      ELSE Out("raster_map", r.ret, "", m.vmin, m.vmax)])
        ELSE IF ext_of(key) \in VectorExts
        THEN [fs |-> r.fs, memo |-> memov, call |-> obs, raised |-> FALSE,
              out |-> Out("vector_map", r.ret, "", NaNVal, NaNVal)]
        ELSE [fs |-> r.fs, memo |-> memov, call |-> obs, raised |-> FALSE,
              out |-> Out("st.error", EmptyStr, "Unsupported file type", NaNVal, NaNVal)]))

\* The visualization column of the script (app.py, `with col2:`), run from
\* top to bottom with the current selection.  An exception that no handler
\* of the script catches ends the run ("uncaught").
script(memov, fsv, t, rem, selected_iso, selected_dataset, net) ==
    IF selected_iso # EmptyStr /\ selected_dataset # EmptyStr
    THEN
      With(KeyOf(selected_dataset, selected_iso), LAMBDA key :
      With(ext_of(key), LAMBDA ext :
          IF ext = csv
          THEN With(join3(SESSION_TEMP_DIR, selected_iso, selected_dataset), LAMBDA dir :
               With(download_from_s3(fsv, t, rem, BUCKET_NAME, key, dir, net), LAMBDA r :
                   [ fs |-> r.fs, memo |-> memov,
                     call |-> Observed(fsv, t, key, dir, r),
                     out |-> IF r.raised
                             THEN Out("uncaught", EmptyStr, "download failed", NaNVal, NaNVal)
                             ELSE Out("table", r.ret, "", NaNVal, NaNVal) ]))
          ELSE IF ext \in RasterExts \cup VectorExts
          THEN With(create_map(memov, fsv, t, rem, BUCKET_NAME, key, selected_dataset,
                               join(SESSION_TEMP_DIR, selected_iso), net), LAMBDA c :
                   [ fs |-> c.fs, memo |-> c.memo, call |-> c.call,
                     out |-> IF c.raised
                             THEN Out("uncaught", c.out.path, c.out.msg, NaNVal, NaNVal)
                             ELSE c.out ])
          ELSE [ fs |-> fsv, memo |-> memov, call |-> NoCall,
                 out |-> Out("st.error", EmptyStr, "Unsupported file type", NaNVal, NaNVal) ]))
    ELSE [fs |-> fsv, memo |-> memov, call |-> NoCall, out |-> Idle]

\* The download_button fragment after a click: everything inside its try;
\* any exception becomes st.error.
download_button(fsv, t, rem, selected_iso, selected_dataset, net) ==
    IF DATASETS[selected_dataset] = NoUrl
    THEN [ fs |-> fsv, call |-> NoCall,
           out |-> Out("st.error", EmptyStr, "Error during download: AttributeError",
                       NaNVal, NaNVal) ]
    ELSE With(KeyOf(selected_dataset, selected_iso), LAMBDA key :
         With(join(SESSION_TEMP_DIR, selected_iso), LAMBDA dir :
         With(download_from_s3(fsv, t, rem, BUCKET_NAME, key, dir, net), LAMBDA r :
             [ fs |-> r.fs, call |-> Observed(fsv, t, key, dir, r),
               out |-> IF r.raised
                       THEN Out("st.error", EmptyStr, "Error during download", NaNVal, NaNVal)
                       ELSE Out("save_button", r.ret, "", NaNVal, NaNVal) ])))

----------------------------------------------------------------------------
(* The application: one Streamlit process, one browser session.            *)

Nets == {"ok", "fail"}

GridA == <<Num(1), Num(5)>>
GridB == <<Num(3), Num(9)>>
Uploads == {GridA, GridB}

NoHist ==
    [ watch |-> <<EmptyStr, EmptyStr>>, open |-> FALSE, t0 |-> 0, n |-> 0,
      calls |-> 0, path |-> EmptyStr, same |-> TRUE ]

Callers == {1, 2}
NoRace ==
    [ callers |-> [c \in Callers |-> [pc |-> "off", need |-> FALSE, dl |-> FALSE,
                                      dlat |-> 0, ret |-> EmptyStr]],
      last    |-> [who |-> 0, at |-> 0, data |-> << >>] ]

\* every dataset of the region KEN is in the bucket
AppRemote ==
    [k \in {KeyOf(d, KEN) : d \in DOMAIN DATASETS \ {NoDataset}} |->
        [data |-> GridA, nodata |-> None]]

Init ==
    /\ now = 0
    /\ fs = << >>
    /\ remote = AppRemote
    /\ memo = << >>
    /\ session = [iso |-> iso_list[1], dataset |-> NoDataset]
    /\ out = Idle
    /\ call = NoCall
    /\ hist = NoHist
    /\ race = NoRace
    /\ runs = 0

\* a full run of the script with selection sel
RunScript(sel, net) ==
    \E s \in {script(memo, fs, now, remote, sel.iso, sel.dataset, net)} :
        /\ runs < MaxRuns
        /\ runs' = runs + 1
        /\ session' = sel
        /\ fs' = s.fs
        /\ memo' = s.memo
        /\ call' = s.call
        /\ out' = s.out
        /\ UNCHANGED <<now, remote, hist, race>>

\* the ISO selectbox changes: on_change resets the dataset, the script reruns
SelectIso ==
    \E i \in {iso_list[j] : j \in DOMAIN iso_list}, net \in Nets :
        /\ i # session.iso
        /\ RunScript([iso |-> i, dataset |-> NoDataset], net)

\* the dataset selectbox changes: the script reruns
SelectDataset ==
    \E d \in DOMAIN DATASETS, net \in Nets :
        /\ d # session.dataset
        /\ RunScript([iso |-> session.iso, dataset |-> d], net)

\* any other rerun of the script with the selection unchanged
Rerun == \E net \in Nets : RunScript(session, net)

\* "Download Dataset" is clicked: the fragment alone reruns
ClickDownload ==
    \E net \in Nets :
        \E b \in {download_button(fs, now, remote, session.iso, session.dataset, net)} :
            /\ runs < MaxRuns
            /\ runs' = runs + 1
            /\ fs' = b.fs
            /\ call' = b.call
            /\ out' = b.out
            /\ UNCHANGED <<now, remote, memo, session, hist, race>>

\* wall-clock time passes
Tick ==
    /\ now + TickSeconds <= MaxTicks * TickSeconds
    /\ now' = now + TickSeconds
    /\ UNCHANGED <<fs, remote, memo, session, out, call, hist, race, runs>>

\* somebody replaces a raster of the bucket (only a raster's content is
\* looked into; every other object is opaque)
RemoteUpdate ==
    \E key \in {k \in DOMAIN remote : ext_of(k) \in RasterExts}, g \in Uploads :
        /\ remote[key].data # g
        /\ remote' = [remote EXCEPT ![key].data = g]
        /\ UNCHANGED <<now, fs, memo, session, out, call, hist, race, runs>>

Next ==
    \/ SelectIso
    \/ SelectDataset
    \/ Rerun
    \/ ClickDownload
    \/ Tick
    \/ RemoteUpdate

Spec == Init /\ [][Next]_vars

----------------------------------------------------------------------------
(* download_from_s3 on its own: sequential calls with arbitrary arguments, *)
(* starting from an empty directory or from one file left by an earlier    *)
(* process (possibly with a backdated modification time).                  *)

c_tif == <<"c", ".", "t", "i", "f">>
FetchKeys ==
    { <<"a", "/">> \o c_tif, <<"b", "/">> \o c_tif, <<"a", "/", "b", "/", "e">> }
FetchDirs == { <<"d">>, <<"d", "/">>, <<"/", "t">> }
FetchFiles == { <<"d", "/">> \o c_tif, <<"/", "t", "/">> \o c_tif }

\* the bucket holds the two objects named c.tif; a/b/e is missing
FetchRemote ==
    [k \in {<<"a", "/">> \o c_tif, <<"b", "/">> \o c_tif} |->
        [data |-> GridA, nodata |-> None]]

\* modification times of a file found at start: just stale, exactly 24
\* hours old, just written
Backdated == {0 - 24 * 3600 - 1, 0 - 24 * 3600, 0}

InitFetch ==
    /\ now = 0
    /\ \/ fs = << >>
       \/ \E p \in FetchFiles, m \in Backdated, k \in DOMAIN FetchRemote :
            fs = (p :> [mtime |-> m, key |-> k, data |-> GridB, nodata |-> None])
    /\ remote = FetchRemote
    /\ memo = << >>
    /\ session = [iso |-> iso_list[1], dataset |-> NoDataset]
    /\ out = Idle
    /\ call = NoCall
    /\ \E w \in FetchKeys \X FetchDirs : hist = [NoHist EXCEPT !.watch = w]
    /\ race = NoRace
    /\ runs = 0

\* The history of the watched arguments: a window opens with a successful
\* download and stays open for 24 hours; n counts the downloads attempted
\* and calls the calls made at times inside it (the opening one included).
HistStep(h, t, key, dir, r) ==
    IF <<key, dir>> # h.watch THEN h
    ELSE IF h.open /\ t <= h.t0 + 24 * 3600
    THEN [h EXCEPT !.n = Min(h.n + (IF r.downloaded THEN 1 ELSE 0), MaxCalls),
                   !.calls = Min(h.calls + 1, MaxCalls),
                   !.same = h.same /\ ~r.raised /\ r.ret = h.path]
    ELSE IF r.downloaded /\ ~r.raised
    THEN [h EXCEPT !.open = TRUE, !.t0 = t, !.n = 1, !.calls = 1,
                   !.path = r.ret, !.same = TRUE]
    ELSE [NoHist EXCEPT !.watch = h.watch]

Fetch ==
    \E key \in FetchKeys, dir \in FetchDirs, net \in Nets :
        \E r \in {download_from_s3(fs, now, remote, BUCKET_NAME, key, dir, net)} :
            /\ fs' = r.fs
            /\ call' = Observed(fs, now, key, dir, r)
            /\ hist' = HistStep(hist, now, key, dir, r)
            /\ UNCHANGED <<now, remote, memo, session, out, race, runs>>

NextFetch ==
    \/ Fetch
    \/ Tick

SpecFetch == InitFetch /\ [][NextFetch]_vars

----------------------------------------------------------------------------
(* Two callers inside download_from_s3 with the same arguments, one        *)
(* statement at a time: line 153 (the test), line 155 (the download),      *)
(* line 157 (the return).                                                  *)

RaceKey == <<"a", "/">> \o c_tif
RaceDir == <<"d">>

InitRace ==
    /\ now = 0
    /\ \/ fs = << >>
       \/ \E m \in Backdated :
            fs = (LocalPath(RaceDir, RaceKey) :>
                    [mtime |-> m, key |-> RaceKey, data |-> GridB, nodata |-> None])
    /\ remote = FetchRemote
    /\ memo = << >>
    /\ session = [iso |-> iso_list[1], dataset |-> NoDataset]
    /\ out = Idle
    /\ call = NoCall
    /\ hist = NoHist
    /\ race = [NoRace EXCEPT !.callers = [c \in Callers |->
                                [NoRace.callers[c] EXCEPT !.pc = "test"]]]
    /\ runs = 0

RaceFrame == UNCHANGED <<now, remote, memo, session, out, call, hist, runs>>

\* line 153: the condition is evaluated on what is on disk now
RaceTest(c) ==
    /\ race.callers[c].pc = "test"
    /\ \E need \in {NeedsDownload(fs, now, LocalPath(RaceDir, RaceKey))} :
         race' = [race EXCEPT !.callers[c].need = need,
                              !.callers[c].pc = IF need THEN "download" ELSE "return"]
    /\ fs' = fs
    /\ RaceFrame

\* line 155: s3.download_file, whatever happened since the test
RaceDownload(c) ==
    /\ race.callers[c].pc = "download"
    /\ \E net \in Nets :
         IF CanDownload(remote, RaceKey, net)
         THEN /\ fs' = Stored(fs, now, remote, RaceKey, LocalPath(RaceDir, RaceKey))
              /\ race' = [race EXCEPT !.callers[c].pc = "return",
                                      !.callers[c].dl = TRUE,
                                      !.callers[c].dlat = now,
                                      !.last = [who |-> c, at |-> now,
                                                data |-> remote[RaceKey].data]]
         ELSE /\ fs' = fs
              /\ race' = [race EXCEPT !.callers[c].pc = "raised"]
    /\ RaceFrame

\* line 157
RaceReturn(c) ==
    /\ race.callers[c].pc = "return"
    /\ race' = [race EXCEPT !.callers[c].pc = "done",
                            !.callers[c].ret = LocalPath(RaceDir, RaceKey)]
    /\ fs' = fs
    /\ RaceFrame

NextRace ==
    \/ \E c \in Callers : RaceTest(c)
    \/ \E c \in Callers : RaceDownload(c)
    \/ \E c \in Callers : RaceReturn(c)
    \/ Tick
    \/ RemoteUpdate

SpecRace == InitRace /\ [][NextRace]_vars

----------------------------------------------------------------------------
(* calculate_vmin_vmax and visualize_raster called directly on one raster  *)
(* file, for every small first band and declared no-data value.            *)

CalcPath == <<"r", ".", "t", "i", "f">>
Cells == {Num(0 - 2), Num(0), Num(3), NaN, PosInf, NegInf}
Grids == UNION {[1..n -> Cells] : n \in 1..MaxCells}
NoDatas == {None, Num(0), Num(3)}
GivenBounds == {None, Exact(0), Exact(9)}

InitCalc ==
    /\ now = 0
    /\ \E g \in Grids, nd \in NoDatas :
         fs = (CalcPath :> [mtime |-> 0, key |-> CalcPath, data |-> g, nodata |-> nd])
    /\ remote = << >>
    /\ memo = << >>
    /\ session = [iso |-> iso_list[1], dataset |-> NoDataset]
    /\ out = Idle
    /\ call = NoCall
    /\ hist = NoHist
    /\ race = NoRace
    /\ runs = 0

CalcFrame == UNCHANGED <<now, fs, remote, session, call, hist, race, runs>>

\* calculate_vmin_vmax(CalcPath, method) with the default parameters
Calc ==
    \E method \in Methods :
        \E c \in {calculate_vmin_vmax(memo, fs, CalcPath, method, <<2, 98>>, 2)} :
            /\ memo' = c.memo
            /\ out' = OutOf("calculate_vmin_vmax", CalcPath, <<method>>, c.res)
            /\ CalcFrame

\* visualize_raster(CalcPath, vmin=.., vmax=..)
Visualize ==
    \E vmin \in GivenBounds, vmax \in GivenBounds :
        \E m \in {visualize_raster(memo, fs, CalcPath, vmin, vmax)} :
            /\ memo' = m.memo
            /\ out' = OutOf("visualize_raster", CalcPath, <<vmin, vmax>>, m)
            /\ CalcFrame

NextCalc ==
    \/ Calc
    \/ Visualize

SpecCalc == InitCalc /\ [][NextCalc]_vars

----------------------------------------------------------------------------
(* The claims.                                                             *)

Chars(str) == {str[i] : i \in DOMAIN str}

\* the final segment of a slash-delimited key: its longest slash-free suffix
LastSegment(key) ==
    CHOOSE seg \in {SubSeq(key, i + 1, Len(key)) : i \in 0..Len(key)} :
        /\ "/" \notin Chars(seg)
        /\ Len(seg) = Len(key) \/ key[Len(key) - Len(seg)] = "/"

\* a path with every run of slashes written as one slash
RECURSIVE Squash(_)
Squash(path) ==
    IF Len(path) < 2 THEN path
    ELSE IF path[1] = "/" /\ path[2] = "/" THEN Squash(Tail(path))
    ELSE <<path[1]>> \o Squash(Tail(path))

\* the file <dir>/<name>, as a path
InDir(dir, name) == Squash(dir \o <<"/">> \o name)

\* C1: within 24 hours of a successful download, all calls with the same
\* arguments perform exactly one download between them (the one that opened
\* the window) and all of them return the same path.
C1_OneDownloadPerFreshWindow ==
    hist.open => (hist.n = 1 /\ hist.same)

\* three calls inside one window, the last one exactly 24 hours after the
\* download, and a single download
C1_Witness ==
    /\ hist.open
    /\ hist.calls = 3
    /\ hist.n = 1
    /\ call.made
    /\ <<call.key, call.dir>> = hist.watch
    /\ call.at = hist.t0 + 24 * 3600
    /\ ~call.downloaded

\* C2: a call downloads if and only if the file was missing or its
\* modification time was more than 24 hours before the call; a successful
\* download leaves the requested object at the path, written at the time
\* of the call, hence fresh.
C2_DownloadIffMissingOrStale ==
    call.made =>
        /\ call.downloaded <=>
             (~call.pre_exists \/ call.at - call.pre_mtime > 24 * 3600)
        /\ (call.downloaded /\ ~call.raised) =>
             /\ exists(fs, call.ret)
             /\ fs[call.ret].key = call.key
             /\ fs[call.ret].data = remote[call.key].data
             /\ fs[call.ret].mtime = call.at
             /\ ~(call.at - fs[call.ret].mtime > 24 * 3600)

\* a stale file left by an earlier process has just been overwritten
C2_Witness ==
    /\ call.made
    /\ call.pre_exists
    /\ call.at - call.pre_mtime > 24 * 3600
    /\ call.downloaded
    /\ ~call.raised
    /\ fs[call.ret].data = GridA

\* C3: every call that returns, returns the file named by the final segment
\* of the key inside the destination directory (literally
\* <destination_dir>/<segment> when the directory is written without a
\* trailing slash), whatever the cache held.
C3_ReturnsDirSlashLastSegment ==
    (call.made /\ ~call.raised) =>
        /\ Squash(call.ret) = InDir(call.dir, LastSegment(call.key))
        /\ call.dir[Len(call.dir)] # "/" =>
             call.ret = call.dir \o <<"/">> \o LastSegment(call.key)

\* a cache hit for a key with directory components
C3_Witness ==
    /\ call.made
    /\ call.pre_exists
    /\ ~call.downloaded
    /\ Len(LastSegment(call.key)) < Len(call.key)
    /\ call.ret = <<"/", "t", "/">> \o c_tif

\* C4: a fetch made by the app never returns a cached file that was
\* downloaded for another dataset's key.
C4_FetchReturnsOwnDataset ==
    (call.made /\ ~call.raised) => fs[call.ret].key = call.key

\* C5: when the fetcher raises during an app action, the action ends in a
\* message produced by the script's own handler (st.error), never in an
\* exception leaving the script.
C5_FetchFailureIsCaught ==
    (call.made /\ call.raised) => out.kind = "st.error"

\* the cells of a file that are finite and differ from the declared no-data value
ValidSet(file) ==
    { file.data[i].v : i \in { j \in DOMAIN file.data :
        /\ file.data[j].k = "num"
        /\ ~(file.nodata.k = "num" /\ file.nodata.v = file.data[j].v) } }

C8_RaceSamePathLastWriterWins ==
    /\ \A c \in Callers :
         race.callers[c].pc = "done" =>
            race.callers[c].ret = RaceDir \o <<"/">> \o LastSegment(RaceKey)
    /\ race.last.who # 0 =>
         /\ exists(fs, RaceDir \o <<"/">> \o LastSegment(RaceKey))
         /\ fs[RaceDir \o <<"/">> \o LastSegment(RaceKey)].data = race.last.data
         /\ fs[RaceDir \o <<"/">> \o LastSegment(RaceKey)].mtime = race.last.at

\* both callers found the stale file left by an earlier process, both
\* downloaded at the same instant, and both returned
C8_Witness ==
    /\ \A c \in Callers :
         /\ race.callers[c].pc = "done"
         /\ race.callers[c].need
         /\ race.callers[c].dl
    /\ race.callers[1].dlat = race.callers[2].dlat
    /\ race.callers[1].ret = race.callers[2].ret

\* C9: the range shown with a raster map is the range of the file now
\* stored at the path.
C9_RangeOfCurrentFile ==
    out.kind = "raster_map" =>
        /\ out.vmin = calculate_body(fs, out.path, "std_dev", <<2, 98>>, 2).vmin
        /\ out.vmax = calculate_body(fs, out.path, "std_dev", <<2, 98>>, 2).vmax

\* C10: visualize_raster uses the caller's vmin and vmax when both are
\* given and the std_dev range otherwise; the range is never unset.
C10_RangeIsDefined ==
    out.kind = "visualize_raster" =>
        IF out.args[1] # None /\ out.args[2] # None
        THEN ~out.raised /\ out.vmin = out.args[1] /\ out.vmax = out.args[2]
        ELSE /\ out.raised = calculate_body(fs, out.path, "std_dev", <<2, 98>>, 2).raised
             /\ out.vmin = calculate_body(fs, out.path, "std_dev", <<2, 98>>, 2).vmin
             /\ out.vmax = calculate_body(fs, out.path, "std_dev", <<2, 98>>, 2).vmax

====
